---- MODULE Spec2Model ----
(***************************************************************************)
(* Block content model and route-aware JSON persistence of the website.    *)
(*                                                                         *)
(*   core/block.rs        Block, BlockWithId and their serde wire shape    *)
(*   pages/homepage.rs    HomepageData (the content document)              *)
(*   core/persistence.rs  routes index, load_blocks, save_blocks, ...      *)
(*   pages/admin/api.rs   update_route, update_homepage                    *)
(*                                                                         *)
(* A file's text is a sequence of JSON tokens: serde_json writes the       *)
(* opening of the document, one object per element, and the closing.       *)
(* Serialising and parsing are separate operators over these tokens, so a  *)
(* round trip is something the model computes.                             *)
(***************************************************************************)
EXTENDS Integers, Sequences, FiniteSets, TLC

VARIABLES
    routesFile,   \* data/routes.json
    files,        \* the content files, by path
    last,         \* the call this run serves and what it returned
    procs         \* SpecConc: the calls that run side by side, by thread

vars == <<routesFile, files, last, procs>>

----------------------------------------------------------------------------
(* Bounds                                                                  *)

\* longest block sequence a request carries
MaxBlocks == 2

\* longest route sequence save_routes is called with
MaxRoutes == 2

----------------------------------------------------------------------------
(* Universe of values                                                      *)

ROUTES_JSON_PATH == "data/routes.json"

HOMEPAGE_JSON == "data/content/homepage.json"
FOO_JSON      == "data/content/foo.json"
Paths         == {HOMEPAGE_JSON, FOO_JSON}

RouteNames == {"homepage", "foo", "ghost"}

\* ids a client sends: empty, whitespace only, and an ordinary one
Ids == {"", " ", "a"}

\* strings Uuid::new_v4().to_string() returns; no client id is one of them
Uuids == {"uuid-1", "uuid-2", "uuid-3"}

Whitespace == {"", " "}

\* str::is_empty() without the trim
IsEmpty(s) == s = ""

\* str::trim().is_empty()
TrimIsEmpty(s) == s \in Whitespace

ButtonProps == [href |-> "/start", text |-> "Go", aria_label |-> "Start"]

HeaderProps == [headline |-> "Welcome", button |-> ButtonProps]

HeroProps == [headline |-> "Welcome", subheadline |-> "Sub"]

\* enum Block { Header(HeaderProps), Hero(HeroProps) }
Block ==
    { [variant |-> "Header", props |-> HeaderProps],
      [variant |-> "Hero",   props |-> HeroProps] }

\* struct BlockWithId { id, block }
BlockWithId(idset) == [id : idset, block : Block]

SeqsUpTo(S, n) == UNION { [1..k -> S] : k \in 0..n }

\* the block sequences a caller passes
BlockSeqs == SeqsUpTo(BlockWithId(Ids), MaxBlocks)

----------------------------------------------------------------------------
(* JSON text                                                               *)
(*                                                                         *)
(* Tokens: "doc_open" is the text up to and including the bracket that     *)
(* opens the blocks array, "doc_close" the text that closes the array and  *)
(* the object; "arr_open"/"arr_close" open and close a top-level array;    *)
(* "object" is one JSON object given by its keys; "space" is whitespace;   *)
(* "junk" is text that is not JSON.                                        *)

DocOpen  == [t |-> "doc_open"]
DocClose == [t |-> "doc_close"]
ArrOpen  == [t |-> "arr_open"]
ArrClose == [t |-> "arr_close"]
Space    == [t |-> "space"]
Junk     == [t |-> "junk"]

Object(f) == [t |-> "object", fields |-> f]

\* a BlockWithId written without the flatten: the block under its own key
SerializeBlockWithId_nested(b) ==
    Object([id |-> b.id,
            block |-> [type |-> b.block.variant, props |-> b.block.props]])

\* #[serde(flatten)] over #[serde(tag = "type", content = "props")]:
\* id, type and props are sibling keys of one object
SerializeBlockWithId(b) ==
    Object([id |-> b.id, type |-> b.block.variant, props |-> b.block.props])

\* the blocks written as a bare array, without the document around them
SerializeDocument_bare(blocks) ==
    <<ArrOpen>> \o [i \in 1..Len(blocks) |-> SerializeBlockWithId(blocks[i])]
                \o <<ArrClose>>

\* serde_json::to_string_pretty(&HomepageData)
SerializeDocument(blocks) ==
    <<DocOpen>> \o [i \in 1..Len(blocks) |-> SerializeBlockWithId(blocks[i])]
                \o <<DocClose>>

\* Deserialize for HeaderProps / HeroProps: every field must be present
PropsMatch(variant, props) ==
    IF variant = "Header"
    THEN /\ {"headline", "button"} \subseteq DOMAIN props
         /\ {"href", "text", "aria_label"} \subseteq DOMAIN props.button
    ELSE {"headline", "subheadline"} \subseteq DOMAIN props

BlockWithIdParses(tok) ==
    /\ tok.t = "object"
    /\ {"id", "type", "props"} \subseteq DOMAIN tok.fields
    /\ tok.fields.type \in {"Header", "Hero"}
    /\ PropsMatch(tok.fields.type, tok.fields.props)

\* Deserialize for BlockWithId, on an object that BlockWithIdParses
ParseBlockWithId(tok) ==
    [id    |-> tok.fields.id,
     block |-> [variant |-> tok.fields.type,
                props   |-> IF tok.fields.type = "Header"
                            THEN [headline |-> tok.fields.props.headline,
                                  button   |->
                                      [href       |-> tok.fields.props.button.href,
                                       text       |-> tok.fields.props.button.text,
                                       aria_label |-> tok.fields.props.button.aria_label]]
                            ELSE [headline    |-> tok.fields.props.headline,
                                  subheadline |-> tok.fields.props.subheadline]]]

\* serde_json::from_str::<HomepageData>: the whole text must be one document
ParseDocument(text) ==
    LET n == Len(text)
        wellFormed ==
            /\ n >= 2
            /\ text[1] = DocOpen
            /\ text[n] = DocClose
            /\ \A i \in 2..(n - 1) : BlockWithIdParses(text[i])
    IN  IF wellFormed
        THEN [ok |-> TRUE,
              blocks |-> [i \in 1..(n - 2) |-> ParseBlockWithId(text[i + 1])]]
        ELSE [ok |-> FALSE, blocks |-> <<>>]

\* a Route written with the field's Rust name as its key
SerializeRoute_norename(r) ==
    Object([path |-> r.path, name |-> r.name, block_ids |-> r.block_ids])

\* #[serde(rename = "blockIds")] on Route.block_ids
SerializeRoute(r) ==
    Object([path |-> r.path, name |-> r.name, blockIds |-> r.block_ids])

\* serde_json::to_string_pretty(&[Route])
SerializeRoutes(routes) ==
    <<ArrOpen>> \o [i \in 1..Len(routes) |-> SerializeRoute(routes[i])]
                \o <<ArrClose>>

RouteParses(tok) ==
    /\ tok.t = "object"
    /\ {"path", "name", "blockIds"} \subseteq DOMAIN tok.fields

ParseRoute(tok) ==
    [path      |-> tok.fields.path,
     name      |-> tok.fields.name,
     block_ids |-> tok.fields.blockIds]

\* serde_json::from_str::<Vec<Route>>
ParseRoutes(text) ==
    LET n == Len(text)
        wellFormed ==
            /\ n >= 2
            /\ text[1] = ArrOpen
            /\ text[n] = ArrClose
            /\ \A i \in 2..(n - 1) : RouteParses(text[i])
    IN  IF wellFormed
        THEN [ok |-> TRUE,
              routes |-> [i \in 1..(n - 2) |-> ParseRoute(text[i + 1])]]
        ELSE [ok |-> FALSE, routes |-> <<>>]

\* contents.trim().is_empty()
TextTrimIsEmpty(text) == \A i \in 1..Len(text) : text[i] = Space

----------------------------------------------------------------------------
(* File system                                                             *)
(*                                                                         *)
(* A file is missing, or exists with a mode and a text.  Mode "rw" allows  *)
(* reading and writing, "ro" only reading, "none" neither.                 *)

Missing == [exists |-> FALSE, mode |-> "rw", text |-> <<>>]

File(mode, text) == [exists |-> TRUE, mode |-> mode, text |-> text]

\* std::fs::read_to_string
ReadToString(f) ==
    IF ~f.exists THEN [ok |-> FALSE, kind |-> "NotFound", text |-> <<>>]
    ELSE IF f.mode = "none"
         THEN [ok |-> FALSE, kind |-> "PermissionDenied", text |-> <<>>]
         ELSE [ok |-> TRUE, kind |-> "", text |-> f.text]

\* std::fs::write can open the file for writing (creating it if missing)
CanWrite(f) == ~f.exists \/ f.mode = "rw"

\* a write that opens the file for appending instead of truncating it
Written_append(f, text) == File("rw", f.text \o text)

\* std::fs::write, when it succeeds: the file holds the new text only
Written(f, text) == File("rw", text)

\* The routes index file is a file like any other: a content path that names
\* it leads to the same file.
FileAt(rf, fs, path) ==
    IF path = ROUTES_JSON_PATH THEN rf ELSE fs[path]

\* the files after a successful write of `text` to `path`
WriteTo(rf, fs, path, text) ==
    IF path = ROUTES_JSON_PATH
    THEN [files |-> fs, routesFile |-> Written(rf, text)]
    ELSE [files |-> [fs EXCEPT ![path] = Written(fs[path], text)],
          routesFile |-> rf]

----------------------------------------------------------------------------
(* core/persistence.rs and pages/homepage.rs                               *)

\* default blocks that are built with one id for both
default_blocks_one_id ==
    << [id    |-> "550e8400-e29b-41d4-a716-446655440001",
        block |-> [variant |-> "Header",
                   props   |-> [headline |-> "Eng Manager",
                                button   |->
                                    [href       |-> "/contact",
                                     text       |-> "Get in touch",
                                     aria_label |->
                                         "Contact us to discuss your engineering needs"]]]],
       [id    |-> "550e8400-e29b-41d4-a716-446655440001",
        block |-> [variant |-> "Hero",
                   props   |-> [headline    |-> "Building world-class engineering teams",
                                subheadline |->
                                    "Leadership through example, expertise, and empathy"]]] >>

\* HomepageData::default_blocks
default_blocks ==
    << [id    |-> "550e8400-e29b-41d4-a716-446655440001",
        block |-> [variant |-> "Header",
                   props   |-> [headline |-> "Eng Manager",
                                button   |->
                                    [href       |-> "/contact",
                                     text       |-> "Get in touch",
                                     aria_label |->
                                         "Contact us to discuss your engineering needs"]]]],
       [id    |-> "550e8400-e29b-41d4-a716-446655440002",
        block |-> [variant |-> "Hero",
                   props   |-> [headline    |-> "Building world-class engineering teams",
                                subheadline |->
                                    "Leadership through example, expertise, and empathy"]]] >>

Route(path, name, block_ids) ==
    [path |-> path, name |-> name, block_ids |-> block_ids]

default_routes == << Route("/", "homepage", <<HOMEPAGE_JSON>>) >>

\* a loader that answers a routes file it cannot parse with no routes
load_routes_or_empty(rf) ==
    LET rd == ReadToString(rf)
        parsed == ParseRoutes(rd.text)
    IN  IF rd.ok
        THEN IF TextTrimIsEmpty(rd.text)
             THEN [routes |-> default_routes, logs |-> 0]
             ELSE IF parsed.ok
                  THEN [routes |-> parsed.routes, logs |-> 0]
                  ELSE [routes |-> <<>>, logs |-> 1]
        ELSE [routes |-> default_routes,
              logs   |-> IF rd.kind # "NotFound" THEN 1 ELSE 0]

\* load_routes: the routes and the number of lines it prints to stderr
load_routes(rf) ==
    LET rd == ReadToString(rf)
        parsed == ParseRoutes(rd.text)
    IN  IF rd.ok
        THEN IF TextTrimIsEmpty(rd.text)
             THEN [routes |-> default_routes, logs |-> 0]
             ELSE IF parsed.ok
                  THEN [routes |-> parsed.routes, logs |-> 0]
                  ELSE [routes |-> default_routes, logs |-> 1]
        ELSE [routes |-> default_routes,
              logs   |-> IF rd.kind # "NotFound" THEN 1 ELSE 0]

\* a search that keeps the last route with the name: index of it, or 0
FindRoute_last(routes, route_name) ==
    LET hits == { i \in 1..Len(routes) : routes[i].name = route_name }
    IN  IF hits = {} THEN 0
        ELSE CHOOSE i \in hits : \A j \in hits : i >= j

\* routes.iter().find(|r| r.name == route_name): index of the first match, or 0
FindRoute(routes, route_name) ==
    LET hits == { i \in 1..Len(routes) : routes[i].name = route_name }
    IN  IF hits = {} THEN 0
        ELSE CHOOSE i \in hits : \A j \in hits : i <= j

\* a lookup that takes the last block id of the route instead of the first
get_content_path_last(rf, route_name) ==
    LET lr == load_routes(rf)
        i  == FindRoute(lr.routes, route_name)
    IN  IF i = 0
        THEN [ok |-> FALSE, err |-> "RouteNotFound", path |-> "", logs |-> lr.logs]
        ELSE IF Len(lr.routes[i].block_ids) = 0
             THEN [ok |-> FALSE, err |-> "NoContentPath", path |-> "",
                   logs |-> lr.logs]
             ELSE [ok |-> TRUE, err |-> "",
                   path |-> lr.routes[i].block_ids[Len(lr.routes[i].block_ids)],
                   logs |-> lr.logs]

\* a lookup that falls back to the homepage file for an unknown route name
get_content_path_fallback(rf, route_name) ==
    LET lr == load_routes(rf)
        i  == FindRoute(lr.routes, route_name)
    IN  IF i = 0
        THEN [ok |-> TRUE, err |-> "", path |-> HOMEPAGE_JSON, logs |-> lr.logs]
        ELSE IF Len(lr.routes[i].block_ids) = 0
             THEN [ok |-> FALSE, err |-> "NoContentPath", path |-> "",
                   logs |-> lr.logs]
             ELSE [ok |-> TRUE, err |-> "", path |-> lr.routes[i].block_ids[1],
                   logs |-> lr.logs]

\* a lookup that moves on to a later route of the same name when the first
\* one has no content path
get_content_path_skip_empty(rf, route_name) ==
    LET lr   == load_routes(rf)
        hits == { i \in 1..Len(lr.routes) : lr.routes[i].name = route_name }
        full == { i \in hits : Len(lr.routes[i].block_ids) > 0 }
        i    == CHOOSE k \in full : \A j \in full : k <= j
    IN  IF hits = {}
        THEN [ok |-> FALSE, err |-> "RouteNotFound", path |-> "", logs |-> lr.logs]
        ELSE IF full = {}
             THEN [ok |-> FALSE, err |-> "NoContentPath", path |-> "",
                   logs |-> lr.logs]
             ELSE [ok |-> TRUE, err |-> "", path |-> lr.routes[i].block_ids[1],
                   logs |-> lr.logs]

\* get_content_path
get_content_path(rf, route_name) ==
    LET lr == load_routes(rf)
        i  == FindRoute(lr.routes, route_name)
    IN  IF i = 0
        THEN [ok |-> FALSE, err |-> "RouteNotFound", path |-> "", logs |-> lr.logs]
        ELSE IF Len(lr.routes[i].block_ids) = 0
             THEN [ok |-> FALSE, err |-> "NoContentPath", path |-> "",
                   logs |-> lr.logs]
             ELSE [ok |-> TRUE, err |-> "", path |-> lr.routes[i].block_ids[1],
                   logs |-> lr.logs]

\* a loader that answers a file it cannot parse with the default blocks
load_blocks_default(rf, fs, route_name) ==
    LET cp     == get_content_path(rf, route_name)
        rd     == ReadToString(FileAt(rf, fs, cp.path))
        parsed == ParseDocument(rd.text)
    IN  IF ~cp.ok
        THEN [blocks |-> <<>>, logs |-> cp.logs + 1]
        ELSE IF rd.ok
             THEN IF parsed.ok
                  THEN [blocks |-> parsed.blocks, logs |-> cp.logs]
                  ELSE [blocks |-> default_blocks, logs |-> cp.logs + 1]
             ELSE [blocks |-> <<>>,
                   logs   |-> cp.logs + (IF rd.kind # "NotFound" THEN 1 ELSE 0)]

\* a loader that logs every read error, a missing file included
load_blocks_log_missing(rf, fs, route_name) ==
    LET cp     == get_content_path(rf, route_name)
        rd     == ReadToString(FileAt(rf, fs, cp.path))
        parsed == ParseDocument(rd.text)
    IN  IF ~cp.ok
        THEN [blocks |-> <<>>, logs |-> cp.logs + 1]
        ELSE IF rd.ok
             THEN IF parsed.ok
                  THEN [blocks |-> parsed.blocks, logs |-> cp.logs]
                  ELSE [blocks |-> <<>>, logs |-> cp.logs + 1]
             ELSE [blocks |-> <<>>, logs |-> cp.logs + 1]

\* load_blocks: the blocks and the number of lines it prints to stderr
load_blocks(rf, fs, route_name) ==
    LET cp     == get_content_path(rf, route_name)
        rd     == ReadToString(FileAt(rf, fs, cp.path))
        parsed == ParseDocument(rd.text)
    IN  IF ~cp.ok
        THEN [blocks |-> <<>>, logs |-> cp.logs + 1]
        ELSE IF rd.ok
             THEN IF parsed.ok
                  THEN [blocks |-> parsed.blocks, logs |-> cp.logs]
                  ELSE [blocks |-> <<>>, logs |-> cp.logs + 1]
             ELSE [blocks |-> <<>>,
                   logs   |-> cp.logs + (IF rd.kind # "NotFound" THEN 1 ELSE 0)]

\* a save that adds the blocks to the ones the file holds instead of
\* replacing them
save_blocks_merge(rf, fs, route_name, blocks) ==
    LET cp   == get_content_path(rf, route_name)
        old  == ParseDocument(FileAt(rf, fs, cp.path).text).blocks
        json == SerializeDocument(old \o blocks)
    IN  IF ~cp.ok
        THEN [ret |-> cp.err, files |-> fs, routesFile |-> rf]
        ELSE IF ~CanWrite(FileAt(rf, fs, cp.path))
             THEN [ret |-> "IoError", files |-> fs, routesFile |-> rf]
             ELSE [ret   |-> "Ok",
                   files |-> WriteTo(rf, fs, cp.path, json).files,
                   routesFile |-> WriteTo(rf, fs, cp.path, json).routesFile]

\* a save that leaves the file alone when there is nothing to write
save_blocks_skip_empty(rf, fs, route_name, blocks) ==
    LET cp   == get_content_path(rf, route_name)
        json == SerializeDocument(blocks)
    IN  IF ~cp.ok
        THEN [ret |-> cp.err, files |-> fs, routesFile |-> rf]
        ELSE IF ~CanWrite(FileAt(rf, fs, cp.path))
             THEN [ret |-> "IoError", files |-> fs, routesFile |-> rf]
             ELSE IF blocks = <<>>
                  THEN [ret |-> "Ok", files |-> fs, routesFile |-> rf]
                  ELSE [ret   |-> "Ok",
                        files |-> WriteTo(rf, fs, cp.path, json).files,
                        routesFile |-> WriteTo(rf, fs, cp.path, json).routesFile]

\* save_blocks: the result and the content files after the call
save_blocks(rf, fs, route_name, blocks) ==
    LET cp   == get_content_path(rf, route_name)
        json == SerializeDocument(blocks)
    IN  IF ~cp.ok
        THEN [ret |-> cp.err, files |-> fs, routesFile |-> rf]
        ELSE IF ~CanWrite(FileAt(rf, fs, cp.path))
             THEN [ret |-> "IoError", files |-> fs, routesFile |-> rf]
             ELSE [ret   |-> "Ok",
                   files |-> WriteTo(rf, fs, cp.path, json).files,
                   routesFile |-> WriteTo(rf, fs, cp.path, json).routesFile]

\* a wrapper that passes load_blocks' result on as it is
load_homepage_blocks_plain(rf, fs) ==
    load_blocks(rf, fs, "homepage").blocks

\* load_homepage_blocks
load_homepage_blocks(rf, fs) ==
    LET blocks == load_blocks(rf, fs, "homepage").blocks
    IN  IF blocks = <<>> THEN default_blocks ELSE blocks

\* a save that reports success and leaves an existing routes file as it is
save_routes_stale(rf, routes) ==
    LET json == SerializeRoutes(routes)
    IN  IF ~CanWrite(rf)
        THEN [ret |-> "IoError", routesFile |-> rf]
        ELSE [ret |-> "Ok",
              routesFile |-> IF rf.exists THEN rf ELSE Written(rf, json)]

\* save_routes: the result and the routes index file after the call
save_routes(rf, routes) ==
    LET json == SerializeRoutes(routes)
    IN  IF ~CanWrite(rf)
        THEN [ret |-> "IoError", routesFile |-> rf]
        ELSE [ret |-> "Ok", routesFile |-> Written(rf, json)]

----------------------------------------------------------------------------
(* pages/admin/api.rs                                                      *)

\* The ids Uuid::new_v4() hands out in one request, by block position: 122
\* random bits each, taken to be pairwise different.
NewUuids(positions) ==
    { u \in [positions -> Uuids] : \A i, j \in positions : i # j => u[i] # u[j] }

\* positions of the blocks whose id update_route replaces
BlankPositions(blocks) ==
    { i \in 1..Len(blocks) : TrimIsEmpty(blocks[i].id) }

\* an id-filling step that stops after the first block it fills
blocks_with_ids_first_only(blocks, uuid) ==
    [i \in 1..Len(blocks) |->
        IF TrimIsEmpty(blocks[i].id)
           /\ \A j \in 1..(i - 1) : ~TrimIsEmpty(blocks[j].id)
        THEN [blocks[i] EXCEPT !.id = uuid[i]]
        ELSE blocks[i]]

\* an id-filling step that leaves out the blocks with a blank id
blocks_with_ids_drop_blank(blocks, uuid) ==
    SelectSeq(blocks, LAMBDA b : ~TrimIsEmpty(b.id))

\* update_route, lines 52-62: uuid[i] is what Uuid::new_v4() returns for block i
blocks_with_ids(blocks, uuid) ==
    [i \in 1..Len(blocks) |->
        IF TrimIsEmpty(blocks[i].id)
        THEN [blocks[i] EXCEPT !.id = uuid[i]]
        ELSE blocks[i]]

\* axum's IntoResponse for Result<String, String>: either side is a String,
\* and a String becomes a 200 OK text response
IntoResponse(result) ==
    [status |-> 200,
     body   |-> IF result = "Ok" THEN "updated successfully" ELSE "Failed to save"]

\* update_route, from the parsed body on: the response and the content files
update_route(rf, fs, route_name, data, uuid) ==
    LET filled == blocks_with_ids(data, uuid)
        sv     == save_blocks(rf, fs, route_name, filled)
    IN  [saved    |-> filled,
         ret      |-> sv.ret,
         response |-> IntoResponse(sv.ret),
         files    |-> sv.files,
         routesFile |-> sv.routesFile]

\* Json<HomepageData> as an extractor: a body that is not JSON is rejected
\* with 400, a body that is JSON but no HomepageData with 422, and the handler
\* runs only on a body that deserialises
JsonExtract(body) ==
    LET n      == Len(body)
        syntax == /\ n >= 2
                  /\ body[1] = DocOpen
                  /\ body[n] = DocClose
                  /\ \A i \in 2..(n - 1) : body[i].t = "object"
        parsed == ParseDocument(body)
    IN  IF ~syntax THEN [ok |-> FALSE, status |-> 400, data |-> <<>>]
        ELSE IF ~parsed.ok THEN [ok |-> FALSE, status |-> 422, data |-> <<>>]
        ELSE [ok |-> TRUE, status |-> 0, data |-> parsed.blocks]

\* POST /admin/api/:route_name: update_route runs on what the extractor `ex`
\* made of the request body, and not at all when the extractor rejected it
post_update_route(rf, fs, route_name, ex, uuid) ==
    IF ~ex.ok
    THEN [saved |-> <<>>, ret |-> "Rejected",
          response |-> [status |-> ex.status, body |-> "rejection"],
          files |-> fs, routesFile |-> rf]
    ELSE update_route(rf, fs, route_name, ex.data, uuid)

\* a homepage endpoint that writes data/content/homepage.json itself, without
\* looking the route up
post_update_homepage_direct(rf, fs, ex, uuid) ==
    LET filled == blocks_with_ids(ex.data, uuid)
        ok     == CanWrite(fs[HOMEPAGE_JSON])
    IN  IF ~ex.ok
        THEN [saved |-> <<>>, ret |-> "Rejected",
              response |-> [status |-> ex.status, body |-> "rejection"],
              files |-> fs, routesFile |-> rf]
        ELSE [saved    |-> filled,
              ret      |-> IF ok THEN "Ok" ELSE "IoError",
              response |-> IntoResponse(IF ok THEN "Ok" ELSE "IoError"),
              files    |-> IF ok
                           THEN [fs EXCEPT ![HOMEPAGE_JSON] =
                                    Written(@, SerializeDocument(filled))]
                           ELSE fs,
              routesFile |-> rf]

\* POST /admin/api/homepage: update_homepage takes the same extractor and
\* calls update_route with "homepage"
post_update_homepage(rf, fs, ex, uuid) ==
    IF ~ex.ok
    THEN [saved |-> <<>>, ret |-> "Rejected",
          response |-> [status |-> ex.status, body |-> "rejection"],
          files |-> fs, routesFile |-> rf]
    ELSE update_route(rf, fs, "homepage", ex.data, uuid)

\* an editor page that shows the default blocks when the load comes back empty
admin_route_page_or_default(rf, fs, name) ==
    LET routes == load_routes(rf).routes
        loaded == load_blocks(rf, fs, name).blocks
    IN  IF FindRoute(routes, name) = 0
        THEN [status |-> 404, blocks |-> <<>>]
        ELSE [status |-> 200,
              blocks |-> IF loaded = <<>> THEN default_blocks ELSE loaded]

\* admin_route_page: the status and the blocks the editor is rendered with
admin_route_page(rf, fs, name) ==
    LET routes == load_routes(rf).routes
    IN  IF FindRoute(routes, name) = 0
        THEN [status |-> 404, blocks |-> <<>>]
        ELSE [status |-> 200, blocks |-> load_blocks(rf, fs, name).blocks]

\* admin_route_homepage (pages/admin/homepage_editor.rs): the same handler
\* body over its own template
admin_route_homepage(rf, fs, name) ==
    LET routes == load_routes(rf).routes
    IN  IF FindRoute(routes, name) = 0
        THEN [status |-> 404, blocks |-> <<>>]
        ELSE [status |-> 200, blocks |-> load_blocks(rf, fs, name).blocks]

----------------------------------------------------------------------------
(* Initial states                                                          *)

\* route tables an editor of data/routes.json has written
StdRoutes ==
    << Route("/", "homepage", <<HOMEPAGE_JSON>>),
       Route("/foo", "foo", <<FOO_JSON>>) >>

\* "foo" twice, first with two content paths; no "homepage"
DupRoutes ==
    << Route("/foo", "foo", <<FOO_JSON, HOMEPAGE_JSON>>),
       Route("/foo2", "foo", <<HOMEPAGE_JSON>>) >>

\* "homepage" twice, first without a content path
NoPathRoutes ==
    << Route("/", "homepage", <<>>),
       Route("/foo", "foo", <<HOMEPAGE_JSON>>),
       Route("/home", "homepage", <<HOMEPAGE_JSON>>) >>

RouteTables == {StdRoutes, DupRoutes, NoPathRoutes}

\* the routes a caller of save_routes puts in a sequence
RouteEntries ==
    { Route("/", "homepage", <<HOMEPAGE_JSON>>),
      Route("/", "homepage", <<>>),
      Route("/foo", "foo", <<FOO_JSON, HOMEPAGE_JSON>>),
      Route("/ghost", "ghost", <<FOO_JSON>>) }

\* the route sequences save_routes is called with
RouteSeqs == SeqsUpTo(RouteEntries, MaxRoutes)

\* a JSON array whose only entry lacks the blockIds key
NoBlockIdsArray ==
    << ArrOpen, Object([path |-> "/", name |-> "homepage"]), ArrClose >>

RoutesFileStates ==
    { Missing, File("rw", <<>>), File("rw", <<Space>>), File("rw", <<Junk>>),
      File("rw", NoBlockIdsArray),
      File("none", SerializeRoutes(StdRoutes)) }
    \cup { File("rw", SerializeRoutes(r)) : r \in RouteTables }

\* a document whose only block names a variant Block does not have
UnknownVariantDoc ==
    << DocOpen,
       Object([id |-> "a", type |-> "Footer", props |-> HeroProps]),
       DocClose >>

OneBlock == << [id |-> "a", block |-> [variant |-> "Hero", props |-> HeroProps]] >>

\* a block as the documentation of update_homepage shows it: type and props,
\* no id key
NoIdObject == Object([type |-> "Hero", props |-> HeroProps])

\* request bodies: a block with an id, a block without the id key, one of
\* each, a block with an empty id, and text that is not JSON
RequestBodies ==
    { SerializeDocument(OneBlock),
      <<DocOpen, NoIdObject, DocClose>>,
      <<DocOpen, SerializeBlockWithId(OneBlock[1]), NoIdObject, DocClose>>,
      SerializeDocument(<< [OneBlock[1] EXCEPT !.id = ""] >>),
      <<Junk>> }

\* documents earlier saves have left behind
EarlierDocs == { <<>>, OneBlock, default_blocks }

ContentFileStates ==
    { Missing,
      File("rw", <<Junk>>),
      File("rw", UnknownVariantDoc),
      File("none", SerializeDocument(OneBlock)),
      File("ro", SerializeDocument(OneBlock)) }
    \cup { File("rw", SerializeDocument(d)) : d \in EarlierDocs }

NoCall ==
    [op |-> "none", route |-> "", arg |-> <<>>, out |-> <<>>, ret |-> "",
     http |-> 0, logs |-> 0]

\* the worker threads that serve requests side by side
Procs == {1, 2}

Idle ==
    [pc |-> "idle", op |-> "none", route |-> "", path |-> "", arg |-> <<>>,
     json |-> <<>>, pos |-> 0, before |-> <<>>, ret |-> "", out |-> <<>>,
     during |-> 0]

Init ==
    /\ routesFile \in RoutesFileStates
    /\ files \in [Paths -> ContentFileStates]
    /\ last = NoCall
    /\ procs = [p \in Procs |-> Idle]

----------------------------------------------------------------------------
(* Operations                                                              *)

\* A run serves one call against the file system it finds: the handlers keep
\* nothing in memory between calls, so what earlier calls did is in the files.
Call == last.op = "none"

LoadBlocks ==
    /\ Call
    /\ \E route_name \in RouteNames :
        LET r == load_blocks(routesFile, files, route_name)
        IN  /\ last' = [NoCall EXCEPT !.op = "load_blocks", !.route = route_name,
                                      !.out = r.blocks, !.logs = r.logs]
            /\ UNCHANGED <<routesFile, files, procs>>

\* a wrapper that writes the defaults to the file when it falls back to them
LoadHomepageBlocks_persist ==
    /\ Call
    /\ LET out == load_homepage_blocks(routesFile, files)
           fell == load_blocks(routesFile, files, "homepage").blocks = <<>>
       IN  /\ last' = [NoCall EXCEPT !.op = "load_homepage_blocks",
                                     !.route = "homepage", !.out = out]
           /\ files' = IF fell
                       THEN save_blocks(routesFile, files, "homepage", out).files
                       ELSE files
    /\ UNCHANGED <<routesFile, procs>>

LoadHomepageBlocks ==
    /\ Call
    /\ last' = [NoCall EXCEPT !.op = "load_homepage_blocks", !.route = "homepage",
                              !.out = load_homepage_blocks(routesFile, files)]
    /\ UNCHANGED <<routesFile, files, procs>>

LoadRoutes ==
    /\ Call
    /\ LET r == load_routes(routesFile)
       IN  last' = [NoCall EXCEPT !.op = "load_routes", !.out = r.routes,
                                  !.logs = r.logs]
    /\ UNCHANGED <<routesFile, files, procs>>

SaveRoutes ==
    /\ Call
    /\ \E routes \in RouteSeqs :
        LET r == save_routes(routesFile, routes)
        IN  /\ routesFile' = r.routesFile
            /\ last' = [NoCall EXCEPT !.op = "save_routes", !.arg = routes,
                                      !.ret = r.ret]
            /\ UNCHANGED <<files, procs>>

SaveBlocks ==
    /\ Call
    /\ \E route_name \in RouteNames, blocks \in BlockSeqs :
        \E r \in {save_blocks(routesFile, files, route_name, blocks)} :
            /\ files' = r.files
            /\ routesFile' = r.routesFile
            /\ last' = [NoCall EXCEPT !.op = "save_blocks", !.route = route_name,
                                      !.arg = blocks, !.ret = r.ret]
            /\ UNCHANGED procs

UpdateRoute ==
    /\ Call
    /\ \E route_name \in RouteNames, data \in BlockSeqs :
        \E uuid \in NewUuids(BlankPositions(data)) :
            \E r \in {update_route(routesFile, files, route_name, data, uuid)} :
                /\ files' = r.files
                /\ routesFile' = r.routesFile
                /\ last' = [NoCall EXCEPT !.op = "update_route",
                                          !.route = route_name,
                                          !.arg = data, !.out = r.saved,
                                          !.ret = r.ret,
                                          !.http = r.response.status]
                /\ UNCHANGED procs

PostUpdateRoute ==
    /\ Call
    /\ \E route_name \in RouteNames, body \in RequestBodies :
        \E ex \in {JsonExtract(body)} :
        \E uuid \in NewUuids(BlankPositions(ex.data)) :
            \E r \in {post_update_route(routesFile, files, route_name, ex, uuid)} :
                /\ files' = r.files
                /\ routesFile' = r.routesFile
                /\ last' = [NoCall EXCEPT !.op = "post_update_route",
                                          !.route = route_name,
                                          !.arg = body, !.out = r.saved,
                                          !.ret = r.ret,
                                          !.http = r.response.status]
                /\ UNCHANGED procs

PostUpdateHomepage ==
    /\ Call
    /\ \E body \in RequestBodies :
        \E ex \in {JsonExtract(body)} :
        \E uuid \in NewUuids(BlankPositions(ex.data)) :
            \E r \in {post_update_homepage(routesFile, files, ex, uuid)} :
                /\ files' = r.files
                /\ routesFile' = r.routesFile
                /\ last' = [NoCall EXCEPT !.op = "post_update_homepage",
                                          !.route = "homepage",
                                          !.arg = body, !.out = r.saved,
                                          !.ret = r.ret,
                                          !.http = r.response.status]
                /\ UNCHANGED procs

AdminRoutePage ==
    /\ Call
    /\ \E name \in RouteNames :
        LET r == admin_route_page(routesFile, files, name)
        IN  last' = [NoCall EXCEPT !.op = "admin_route_page", !.route = name,
                                   !.out = r.blocks, !.http = r.status]
    /\ UNCHANGED <<routesFile, files, procs>>

AdminRouteHomepage ==
    /\ Call
    /\ \E name \in RouteNames :
        LET r == admin_route_homepage(routesFile, files, name)
        IN  last' = [NoCall EXCEPT !.op = "admin_route_homepage", !.route = name,
                                   !.out = r.blocks, !.http = r.status]
    /\ UNCHANGED <<routesFile, files, procs>>

\* The editor page of a route is opened (admin_route_page) and the blocks it
\* shows are posted back as they are (update_route); no other call comes
\* between the two requests.
PublishUnchanged ==
    /\ Call
    /\ \E route_name \in RouteNames :
        \E page \in {admin_route_page(routesFile, files, route_name)} :
            /\ page.status = 200
            /\ \E uuid \in NewUuids(BlankPositions(page.blocks)) :
               \E r \in {update_route(routesFile, files, route_name,
                                      page.blocks, uuid)} :
                   /\ files' = r.files
                   /\ routesFile' = r.routesFile
                   /\ last' = [NoCall EXCEPT !.op = "publish_unchanged",
                                             !.route = route_name,
                                             !.arg = page.blocks,
                                             !.out = r.saved,
                                             !.ret = r.ret,
                                             !.http = r.response.status]
                   /\ UNCHANGED procs

Next ==
    \/ LoadBlocks
    \/ LoadHomepageBlocks
    \/ LoadRoutes
    \/ SaveRoutes
    \/ SaveBlocks
    \/ UpdateRoute
    \/ PostUpdateRoute
    \/ PostUpdateHomepage
    \/ AdminRoutePage
    \/ AdminRouteHomepage
    \/ PublishUnchanged

Spec == Init /\ [][Next]_vars

----------------------------------------------------------------------------
(* A route whose content path is the routes index file                     *)
(*                                                                         *)
(* get_content_path returns the first block id as it is in the index; no   *)
(* code checks where it points.                                            *)

\* "foo" has data/routes.json as its content path
SelfRoutes ==
    << Route("/", "homepage", <<HOMEPAGE_JSON>>),
       Route("/foo", "foo", <<ROUTES_JSON_PATH>>) >>

\* "homepage" has data/routes.json as its content path
SelfHomeRoutes ==
    << Route("/", "homepage", <<ROUTES_JSON_PATH>>),
       Route("/foo", "foo", <<FOO_JSON>>) >>

AliasInit ==
    /\ routesFile \in { Missing,
                        File("rw", SerializeRoutes(StdRoutes)),
                        File("rw", SerializeRoutes(SelfRoutes)),
                        File("rw", SerializeRoutes(SelfHomeRoutes)) }
    /\ files \in [Paths -> ContentFileStates]
    /\ last = NoCall
    /\ procs = [p \in Procs |-> Idle]

SpecAlias == AliasInit /\ [][Next]_vars

----------------------------------------------------------------------------
(* Content files that only the system has written                          *)

\* a content file is missing or holds what an earlier save_blocks wrote
OwnFileStates ==
    { Missing,
      File("none", SerializeDocument(OneBlock)),
      File("ro", SerializeDocument(OneBlock)) }
    \cup { File("rw", SerializeDocument(d)) : d \in EarlierDocs }

OwnInit ==
    /\ routesFile \in RoutesFileStates
    /\ files \in [Paths -> OwnFileStates]
    /\ last = NoCall
    /\ procs = [p \in Procs |-> Idle]

SpecOwn == OwnInit /\ [][Next]_vars

----------------------------------------------------------------------------
(* Calls side by side                                                      *)
(*                                                                         *)
(* std::fs::write is File::create, which truncates the file, followed by   *)
(* write_all, which writes from the handle's own offset in one or more     *)
(* write calls.  Another thread can run between any two of these.          *)

\* the zero bytes a write beyond the end of the file leaves before it
Nul == [t |-> "nul"]

\* write(2) of `chunk` at offset `pos` of a file whose text is `text`
WriteAt(text, pos, chunk) ==
    LET end == pos + Len(chunk)
        n   == IF Len(text) > end THEN Len(text) ELSE end
    IN  [i \in 1..n |->
            IF i > pos /\ i <= end THEN chunk[i - pos]
            ELSE IF i <= Len(text) THEN text[i] ELSE Nul]

\* the block sequences the calls that run side by side pass
ConcSeqs == SeqsUpTo(BlockWithId({"a"}), MaxBlocks)

ConcInit ==
    /\ routesFile = File("rw", SerializeRoutes(StdRoutes))
    /\ files \in [Paths -> {Missing, File("ro", SerializeDocument(OneBlock)),
                             File("rw", SerializeDocument(OneBlock))}]
    /\ last = NoCall
    /\ procs = [p \in Procs |-> Idle]

\* save_blocks up to and including File::create
BeginSave(p) ==
    /\ procs[p].pc = "idle"
    /\ \E route_name \in RouteNames, blocks \in ConcSeqs :
        LET cp == get_content_path(routesFile, route_name)
            me == [Idle EXCEPT !.op = "save_blocks", !.route = route_name,
                               !.arg = blocks]
        IN  IF ~cp.ok
            THEN /\ procs' = [procs EXCEPT ![p] =
                                [me EXCEPT !.pc = "done", !.ret = cp.err]]
                 /\ UNCHANGED files
            ELSE IF ~CanWrite(files[cp.path])
            THEN /\ procs' = [procs EXCEPT ![p] =
                                [me EXCEPT !.pc = "done", !.ret = "IoError"]]
                 /\ UNCHANGED files
            ELSE /\ procs' = [procs EXCEPT ![p] =
                                [me EXCEPT !.pc = "writing", !.path = cp.path,
                                           !.json = SerializeDocument(blocks),
                                           !.before =
                                               load_blocks(routesFile, files,
                                                           route_name).blocks]]
                 /\ files' = [files EXCEPT ![cp.path] = File("rw", <<>>)]
    /\ UNCHANGED <<routesFile, last>>

\* one write call of write_all; the save returns after the last one
WriteChunk(p) ==
    /\ procs[p].pc = "writing"
    /\ \E n \in 1..(Len(procs[p].json) - procs[p].pos) :
        LET chunk == SubSeq(procs[p].json, procs[p].pos + 1, procs[p].pos + n)
            pos   == procs[p].pos + n
        IN  /\ files' = [files EXCEPT ![procs[p].path].text =
                                         WriteAt(@, procs[p].pos, chunk)]
            /\ procs' = [procs EXCEPT ![p] =
                           IF pos = Len(procs[p].json)
                           THEN [@ EXCEPT !.pos = pos, !.pc = "done", !.ret = "Ok"]
                           ELSE [@ EXCEPT !.pos = pos]]
    /\ UNCHANGED <<routesFile, last>>

\* the thread whose save_blocks is between File::create and its last write
\* on the file `path`, or 0
Writing(path) ==
    IF \E p \in Procs : procs[p].pc = "writing" /\ procs[p].path = path
    THEN CHOOSE p \in Procs : procs[p].pc = "writing" /\ procs[p].path = path
    ELSE 0

\* load_blocks, reading the file as it is at this moment
LoadDuring(p) ==
    /\ procs[p].pc = "idle"
    /\ \E route_name \in RouteNames :
        LET cp == get_content_path(routesFile, route_name)
            r  == load_blocks(routesFile, files, route_name)
        IN  procs' = [procs EXCEPT ![p] =
                        [Idle EXCEPT !.pc = "done", !.op = "load_blocks",
                                     !.route = route_name, !.out = r.blocks,
                                     !.during = IF cp.ok THEN Writing(cp.path)
                                                ELSE 0]]
    /\ UNCHANGED <<routesFile, files, last>>

ConcNext ==
    \E p \in Procs :
        \/ BeginSave(p)
        \/ WriteChunk(p)
        \/ LoadDuring(p)

SpecConc == ConcInit /\ [][ConcNext]_vars

----------------------------------------------------------------------------
(* Claims                                                                  *)

\* the content path the routes index resolves a name to, as a record
Resolved(route_name) == get_content_path(routesFile, route_name)

\* a save, direct or through update_route, has just returned success
SaveReturnedOk ==
    /\ last.op \in {"save_blocks", "update_route"}
    /\ last.ret = "Ok"

\* the blocks the last call handed to save_blocks
SavedBlocks == IF last.op = "update_route" THEN last.out ELSE last.arg

C2_Expected(route_name) ==
    LET routes == load_routes(routesFile).routes
        named  == { i \in 1..Len(routes) : routes[i].name = route_name }
        first  == CHOOSE i \in named : \A j \in named : i <= j
        file   == files[routes[first].block_ids[1]]
    IN  IF named = {} THEN <<>>
        ELSE IF routes[first].block_ids = <<>> THEN <<>>
        ELSE IF ~file.exists THEN <<>>
        ELSE IF file.mode = "none" THEN <<>>
        ELSE IF ~ParseDocument(file.text).ok THEN <<>>
        ELSE ParseDocument(file.text).blocks

\* C2: load_blocks returns the empty sequence when the route name is not in
\* the index or has no content file, when the content file is missing,
\* unreadable or not a ContentDocument, and the blocks of the parsed file in
\* every other case.
C2_LoadNeverFails ==
    last.op = "load_blocks" =>
        /\ \A i \in 1..Len(last.out) :
               last.out[i].block.variant \in {"Header", "Hero"}
        /\ last.out = C2_Expected(last.route)

\* a file that is JSON but no ContentDocument is answered with the empty sequence
C2_Witness ==
    /\ last.op = "load_blocks"
    /\ Resolved(last.route).ok
    /\ files[Resolved(last.route).path] = File("rw", UnknownVariantDoc)
    /\ last.out = <<>>

\* C3: save_blocks for a route name without an entry in the routes index
\* returns a failure and leaves every content file and the routes index as
\* they were.
C3_UnknownRouteWritesNothing ==
    [][ ( /\ last'.op = "save_blocks"
          /\ \A i \in 1..Len(load_routes(routesFile).routes) :
                 load_routes(routesFile).routes[i].name # last'.route )
        => ( /\ last'.ret = "RouteNotFound"
             /\ files' = files
             /\ routesFile' = routesFile ) ]_vars

\* a non-empty save to "ghost" came back RouteNotFound
C3_Witness ==
    /\ last.op = "save_blocks"
    /\ last.route = "ghost"
    /\ last.arg # <<>>
    /\ last.ret = "RouteNotFound"

C5_NonEmptyIdsKept ==
    last.op = "update_route" =>
        \A i \in 1..Len(last.arg) :
            /\ (last.arg[i].id = "") => (last.out[i].id \in Uuids)
            /\ (last.arg[i].id # "") => (last.out[i].id = last.arg[i].id)

\* C5 (amended): an id that is empty or only whitespace is replaced by a
\* generated non-empty id, and every other id is kept as given.
C5_NonBlankIdsKept ==
    last.op = "update_route" =>
        /\ Len(last.out) = Len(last.arg)
        /\ \A i \in 1..Len(last.arg) :
            /\ (last.arg[i].id \in Whitespace) =>
                   (last.out[i].id \in Uuids /\ last.out[i].id # "")
            /\ (last.arg[i].id \notin Whitespace) =>
                   (last.out[i].id = last.arg[i].id)

\* a request with a whitespace-only id and an ordinary id
C5_Witness ==
    /\ last.op = "update_route"
    /\ Len(last.arg) = 2
    /\ last.arg[1].id = " " /\ last.out[1].id \in Uuids
    /\ last.arg[2].id = "a" /\ last.out[2].id = "a"

\* C6: after a successful save through update_route no two blocks of the
\* persisted document have the same id.
C6_IdsUnique ==
    (last.op = "update_route" /\ last.ret = "Ok") =>
        LET doc == ParseDocument(files[Resolved(last.route).path].text).blocks
        IN  \A i, j \in 1..Len(doc) : (i # j) => (doc[i].id # doc[j].id)

\* C9: when save_blocks fails inside update_route the response is 500, and
\* the response is 200 only when the content file was written.
C9_FailedSaveIsAnError ==
    last.op = "update_route" =>
        /\ (last.ret # "Ok") => (last.http = 500)
        /\ (last.http = 200) => (last.ret = "Ok")

C7_NoPartialRead ==
    \A q \in Procs :
        ( /\ procs[q].op = "load_blocks"
          /\ procs[q].pc = "done"
          /\ procs[q].during # 0 )
        => procs[q].out \in { procs[procs[q].during].before,
                              procs[procs[q].during].arg }

\* C8: when two save_blocks calls to the same route have both returned
\* success, the file holds the document of one of the two calls and
\* load_blocks returns that call's blocks.
C8_LastWriterWins ==
    \A p, q \in Procs :
        ( /\ p # q
          /\ procs[p].op = "save_blocks" /\ procs[p].pc = "done"
          /\ procs[p].ret = "Ok"
          /\ procs[q].op = "save_blocks" /\ procs[q].pc = "done"
          /\ procs[q].ret = "Ok"
          /\ procs[p].path = procs[q].path )
        => \E w \in {p, q} :
              /\ files[procs[p].path].text = SerializeDocument(procs[w].arg)
              /\ load_blocks(routesFile, files, procs[p].route).blocks
                     = procs[w].arg

\* C11: when the homepage route's content file holds a valid document,
\* load_homepage_blocks returns the parsed blocks of that document; it falls
\* back to default_blocks() only when the file is not found or is not a
\* valid document.
C11_ValidDocumentIsReturned ==
    (last.op = "load_homepage_blocks" /\ Resolved("homepage").ok) =>
        LET file   == files[Resolved("homepage").path]
            rd     == ReadToString(file)
            parsed == ParseDocument(file.text)
        IN  /\ (rd.ok /\ parsed.ok) => (last.out = parsed.blocks)
            /\ (last.out = default_blocks) =>
                   \/ ~file.exists
                   \/ (rd.ok /\ ~parsed.ok)
                   \/ (rd.ok /\ parsed.ok /\ parsed.blocks = default_blocks)

\* C12: load_blocks, load_homepage_blocks and load_routes leave the routes
\* index file and every content file as they were: a file that was missing
\* is still missing and a corrupt one still has its corrupt text.
C12_ReadsWriteNothing ==
    [][ (last'.op \in {"load_blocks", "load_homepage_blocks", "load_routes"})
        => ( /\ routesFile' = routesFile
             /\ files' = files ) ]_vars

\* the defaults came back for a missing homepage file under a corrupt routes
\* index, and both files are as they were
C12_Witness ==
    /\ last.op = "load_homepage_blocks"
    /\ last.out = default_blocks
    /\ routesFile = File("rw", <<Junk>>)
    /\ files[HOMEPAGE_JSON] = Missing

\* the text of the routes index file is a JSON array of route objects
C13_IsRouteArray ==
    LET text == routesFile.text
        n    == Len(text)
    IN  /\ n >= 2
        /\ text[1] = ArrOpen /\ text[n] = ArrClose
        /\ \A i \in 2..(n - 1) :
               /\ text[i].t = "object"
               /\ {"path", "name", "blockIds"} \subseteq DOMAIN text[i].fields

\* C13: load_routes returns the single default route (path "/", name
\* "homepage", block_ids ["data/content/homepage.json"]) when the routes index
\* file is missing, unreadable, empty or whitespace-only, or not a JSON route
\* array, and otherwise the routes of the file, one per object, in file order.
C13_LoadRoutesNeverFails ==
    last.op = "load_routes" =>
        IF \/ ~routesFile.exists
           \/ routesFile.mode = "none"
           \/ \A i \in 1..Len(routesFile.text) : routesFile.text[i] = Space
           \/ ~C13_IsRouteArray
        THEN last.out = << [path |-> "/", name |-> "homepage",
                            block_ids |-> <<"data/content/homepage.json">>] >>
        ELSE /\ Len(last.out) = Len(routesFile.text) - 2
             /\ \A i \in 1..Len(last.out) :
                    /\ last.out[i].path = routesFile.text[i + 1].fields.path
                    /\ last.out[i].name = routesFile.text[i + 1].fields.name
                    /\ last.out[i].block_ids
                           = routesFile.text[i + 1].fields.blockIds

\* a routes index file that is not JSON was answered with the default route
C13_Witness ==
    /\ last.op = "load_routes"
    /\ routesFile = File("rw", <<Junk>>)
    /\ last.out = default_routes
    /\ last.logs = 1

\* the routes of the index with the name, by position
C14_Named(route_name) ==
    { i \in 1..Len(load_routes(routesFile).routes) :
          load_routes(routesFile).routes[i].name = route_name }

\* the first route of the index with the name has an empty block_ids
C14_FirstHasNoPath(route_name) ==
    /\ C14_Named(route_name) # {}
    /\ \E i \in C14_Named(route_name) :
           /\ \A j \in C14_Named(route_name) : i <= j
           /\ load_routes(routesFile).routes[i].block_ids = <<>>

\* C14: get_content_path fails with route-not-found exactly when no route of
\* the index has the name and with no-content-path exactly when the matched
\* route has an empty block_ids; in the second case save_blocks returns a
\* failure and writes no file, and load_blocks returns the empty sequence.
C14_ResolveErrors ==
    [][ (last'.op = "save_blocks") =>
          /\ (last'.ret = "RouteNotFound") <=> (C14_Named(last'.route) = {})
          /\ (last'.ret = "NoContentPath") <=> C14_FirstHasNoPath(last'.route)
          /\ C14_FirstHasNoPath(last'.route) =>
                /\ last'.ret # "Ok"
                /\ files' = files
                /\ routesFile' = routesFile
                /\ load_blocks(routesFile', files', last'.route).blocks = <<>> ]_vars

\* a save to "homepage", whose first route has no content path and whose
\* second has one, came back no-content-path
C14_Witness ==
    /\ last.op = "save_blocks"
    /\ last.route = "homepage"
    /\ last.arg # <<>>
    /\ routesFile = File("rw", SerializeRoutes(NoPathRoutes))
    /\ last.ret = "NoContentPath"
    /\ load_blocks(routesFile, files, "homepage").blocks = <<>>

\* the positions of the routes of R with the name
C15_NamedIn(R, route_name) ==
    { i \in 1..Len(R) : R[i].name = route_name }

\* the content path the name has in R: of the first route with the name, the
\* first block id; "" when there is none
C15_PathIn(R, route_name) ==
    IF C15_NamedIn(R, route_name) = {} THEN ""
    ELSE LET i == CHOOSE k \in C15_NamedIn(R, route_name) :
                      \A j \in C15_NamedIn(R, route_name) : k <= j
         IN  IF R[i].block_ids = <<>> THEN "" ELSE R[i].block_ids[1]

\* C15: after save_routes(R) succeeds, the next load_blocks(n) or
\* save_blocks(n) resolves n against R and not against the index the file
\* held before: a name R does not have yields route-not-found, and a name R
\* has is loaded from and saved to the content path R gives it.
C15_NextCallResolvesAgainstSaved ==
    (last.op = "save_routes" /\ last.ret = "Ok") =>
        \A n \in RouteNames :
            LET R  == last.arg
                p  == C15_PathIn(R, n)
                ld == load_blocks(routesFile, files, n)
                sv == save_blocks(routesFile, files, n, OneBlock)
            IN  /\ (C15_NamedIn(R, n) = {}) <=> (sv.ret = "RouteNotFound")
                /\ (C15_NamedIn(R, n) = {}) => (ld.blocks = <<>> /\ sv.files = files)
                /\ (p # "") =>
                       /\ sv.ret \in {"Ok", "IoError"}
                       /\ \A q \in Paths : (q # p) => (sv.files[q] = files[q])
                       /\ (sv.ret = "Ok") =>
                              (sv.files[p].text = SerializeDocument(OneBlock))
                       /\ ld.blocks =
                              IF ReadToString(files[p]).ok
                              THEN ParseDocument(files[p].text).blocks
                              ELSE <<>>

\* the saved index has "ghost", which no index had before, and has no
\* "homepage" any more: "ghost" resolves and "homepage" is not found
C15_Witness ==
    /\ last.op = "save_routes"
    /\ last.ret = "Ok"
    /\ last.arg = << Route("/ghost", "ghost", <<FOO_JSON>>) >>
    /\ Resolved("ghost").ok
    /\ Resolved("ghost").path = FOO_JSON
    /\ Resolved("homepage").err = "RouteNotFound"

\* C16: after save_routes(R) succeeds load_routes returns exactly R: the same
\* length and, entry by entry in the same order, the same path, name and
\* block_ids.
C16_RoutesRoundTrip ==
    (last.op = "save_routes" /\ last.ret = "Ok") =>
        LET got == load_routes(routesFile).routes
        IN  /\ Len(got) = Len(last.arg)
            /\ \A i \in 1..Len(last.arg) :
                   /\ got[i].path = last.arg[i].path
                   /\ got[i].name = last.arg[i].name
                   /\ got[i].block_ids = last.arg[i].block_ids

\* a route without block ids followed by a route with two was saved and is
\* read back
C16_Witness ==
    /\ last.op = "save_routes"
    /\ last.ret = "Ok"
    /\ last.arg = << Route("/", "homepage", <<>>),
                     Route("/foo", "foo", <<FOO_JSON, HOMEPAGE_JSON>>) >>
    /\ load_routes(routesFile).routes = last.arg

\* C17: default_blocks() is a two-element sequence, a Header with headline
\* "Eng Manager" and button href "/contact" followed by a Hero with headline
\* "Building world-class engineering teams", with two distinct non-empty ids;
\* and when the homepage route's content file does not exist,
\* load_homepage_blocks returns exactly this sequence.
C17_DefaultBlocks ==
    /\ Len(default_blocks) = 2
    /\ default_blocks[1].block.variant = "Header"
    /\ default_blocks[1].block.props.headline = "Eng Manager"
    /\ default_blocks[1].block.props.button.href = "/contact"
    /\ default_blocks[2].block.variant = "Hero"
    /\ default_blocks[2].block.props.headline
           = "Building world-class engineering teams"
    /\ default_blocks[1].id # ""
    /\ default_blocks[2].id # ""
    /\ default_blocks[1].id # default_blocks[2].id
    /\ ( /\ last.op = "load_homepage_blocks"
         /\ Resolved("homepage").ok
         /\ ~files[Resolved("homepage").path].exists )
       => ( /\ last.out = default_blocks
            /\ Len(last.out) = 2
            /\ last.out[1].id # last.out[2].id )

\* the homepage route resolves to a file that does not exist and the two
\* default blocks came back
C17_Witness ==
    /\ last.op = "load_homepage_blocks"
    /\ routesFile = File("rw", SerializeRoutes(StdRoutes))
    /\ files[HOMEPAGE_JSON] = Missing
    /\ last.out = default_blocks

\* the positions of the blocks of a request body that have a type and props
\* and no id key
C18_WithoutId(body) ==
    { i \in 1..(Len(body) - 2) :
          /\ body[i + 1].t = "object"
          /\ DOMAIN body[i + 1].fields = {"type", "props"} }

\* C18: a request to update_route or update_homepage whose body has a block
\* with no id key is accepted, and when the route's content file can be
\* written that block is saved with a generated UUID as its id.
C18_MissingIdAccepted ==
    ( /\ last.op \in {"post_update_route", "post_update_homepage"}
      /\ C18_WithoutId(last.arg) # {} )
    => /\ last.http = 200
       /\ ( /\ Resolved(last.route).ok
            /\ CanWrite(files[Resolved(last.route).path]) )
          => LET doc == ParseDocument(files[Resolved(last.route).path].text)
             IN  /\ doc.ok
                 /\ Len(doc.blocks) = Len(last.arg) - 2
                 /\ \A i \in C18_WithoutId(last.arg) : doc.blocks[i].id \in Uuids

\* the routes index file exists and cannot be read, or is read, is not
\* blank, and is not a route array
C19_RoutesFailure ==
    /\ routesFile.exists
    /\ \/ routesFile.mode = "none"
       \/ /\ \E i \in 1..Len(routesFile.text) : routesFile.text[i] # Space
          /\ ~ParseRoutes(routesFile.text).ok

\* the content file exists and cannot be read, or is read and is not a
\* content document
C19_ContentFailure(f) ==
    /\ f.exists
    /\ (f.mode = "none" \/ ~ParseDocument(f.text).ok)

\* C19 as stated: a load_blocks whose resolved content file is missing
\* returns the empty sequence and adds no log entry, whatever the rest of the
\* file system holds; a content file that exists and cannot be read or parsed
\* adds exactly one.
C19_MissingFileIsSilent ==
    (last.op = "load_blocks" /\ Resolved(last.route).ok) =>
        LET f == files[Resolved(last.route).path]
        IN  /\ (~f.exists) => (last.out = <<>> /\ last.logs = 0)
            /\ C19_ContentFailure(f) => (last.logs = 1)

\* C19 (amended): a load_blocks whose resolved content file is missing
\* returns the empty sequence and adds no log entry for the missing file; the
\* call adds exactly one entry for each read failure that occurs in it: one
\* when the routes index file is unreadable or not a route array, one when
\* the route does not resolve to a content path, one when the content file
\* exists and is unreadable or not a content document.
C19_OneEntryPerFailure ==
    last.op = "load_blocks" =>
        LET cp == Resolved(last.route)
            f  == files[cp.path]
            a  == IF C19_RoutesFailure THEN 1 ELSE 0
            b  == IF ~cp.ok THEN 1 ELSE 0
            c  == IF cp.ok /\ C19_ContentFailure(f) THEN 1 ELSE 0
        IN  /\ last.logs = a + b + c
            /\ (cp.ok /\ ~f.exists) => (last.out = <<>> /\ last.logs = a)

\* the routes index file is not JSON, the homepage file the default route
\* names is missing: one entry, for the routes index
C19_Witness ==
    /\ last.op = "load_blocks"
    /\ last.route = "homepage"
    /\ routesFile = File("rw", <<Junk>>)
    /\ files[HOMEPAGE_JSON] = Missing
    /\ last.out = <<>>
    /\ last.logs = 1

\* the block_ids of the first route of the index with the name; <<>> when no
\* route has the name
C20_BlockIds(rf, route_name) ==
    LET routes == load_routes(rf).routes
        named  == { i \in 1..Len(routes) : routes[i].name = route_name }
    IN  IF named = {} THEN <<>>
        ELSE routes[CHOOSE i \in named : \A j \in named : i <= j].block_ids

\* C20: for a route with block_ids [p0, p1, ...], save_blocks writes the file
\* at p0 and no other, so the files at p1, ... are as they were; and
\* load_blocks returns what the file at p0 gives, whatever the files at
\* p1, ... hold.
C20_OnlyFirstBlockId ==
    [][ LET ids == C20_BlockIds(routesFile, last'.route)
        IN  /\ (last'.op = "save_blocks" /\ Len(ids) >= 1) =>
                  /\ \A q \in Paths : (q # ids[1]) => (files'[q] = files[q])
                  /\ (last'.ret = "Ok") =>
                         (files'[ids[1]].text = SerializeDocument(last'.arg))
            /\ (last'.op = "load_blocks" /\ Len(ids) >= 1) =>
                  /\ last'.out = IF ReadToString(files[ids[1]]).ok
                                 THEN ParseDocument(files[ids[1]].text).blocks
                                 ELSE <<>>
                  /\ \A q \in Paths, f \in ContentFileStates :
                         (q # ids[1]) =>
                             (load_blocks(routesFile, [files EXCEPT ![q] = f],
                                          last'.route).blocks = last'.out) ]_vars

\* "foo" has block_ids [foo.json, homepage.json]: the save wrote foo.json and
\* homepage.json still holds the other document it held
C20_Witness ==
    /\ last.op = "save_blocks"
    /\ last.route = "foo"
    /\ last.ret = "Ok"
    /\ last.arg # <<>>
    /\ C20_BlockIds(routesFile, "foo") = <<FOO_JSON, HOMEPAGE_JSON>>
    /\ files[FOO_JSON].text = SerializeDocument(last.arg)
    /\ files[HOMEPAGE_JSON] = File("rw", SerializeDocument(default_blocks))

\* C21: the admin editor page of a route answers 404 exactly when no route
\* of the index load_routes returns has the name; otherwise it answers 200
\* and shows what load_blocks returns for the name, the empty sequence
\* included, and never default_blocks() in its place.
C21_EditorPage ==
    (last.op \in {"admin_route_page", "admin_route_homepage"}) =>
        /\ last.http \in {200, 404}
        /\ (last.http = 404) <=> (C14_Named(last.route) = {})
        /\ (last.http = 200) => (last.out = C2_Expected(last.route))
        /\ (last.http = 200 /\ C2_Expected(last.route) = <<>>) => (last.out = <<>>)

\* the editor of "homepage" was opened while its content file is missing and
\* shows no blocks
C21_Witness ==
    /\ last.op = "admin_route_page"
    /\ last.route = "homepage"
    /\ Resolved("homepage").ok
    /\ files[Resolved("homepage").path] = Missing
    /\ last.http = 200
    /\ last.out = <<>>

\* C22: a serialized BlockWithId is one object with exactly the sibling keys
\* id, type and props, where type is the variant name "Header" or "Hero", and
\* parsing that object gives the BlockWithId back.
C22_WireShape ==
    (last.op = "save_blocks" /\ last.ret = "Ok") =>
        LET text == files[Resolved(last.route).path].text
        IN  /\ Len(text) = Len(last.arg) + 2
            /\ \A i \in 1..Len(last.arg) :
                   LET tok == text[i + 1]
                   IN  /\ tok.t = "object"
                       /\ DOMAIN tok.fields = {"id", "type", "props"}
                       /\ tok.fields.id = last.arg[i].id
                       /\ tok.fields.type = last.arg[i].block.variant
                       /\ tok.fields.type \in {"Header", "Hero"}
                       /\ tok.fields.props = last.arg[i].block.props
                       /\ BlockWithIdParses(tok)
                       /\ ParseBlockWithId(tok) = last.arg[i]

\* a Header and a Hero were saved and are in the file as two flat objects
C22_Witness ==
    /\ last.op = "save_blocks"
    /\ last.ret = "Ok"
    /\ Len(last.arg) = 2
    /\ last.arg[1].block.variant = "Header"
    /\ last.arg[2].block.variant = "Hero"
    /\ files[Resolved(last.route).path].text[2].fields.type = "Header"
    /\ files[Resolved(last.route).path].text[3].fields.type = "Hero"

\* the step is a successful save, through save_blocks or through update_route,
\* for a route that resolves to the path q
C23_SavedTo(q) ==
    /\ last'.op \in {"save_blocks", "update_route", "post_update_route",
                     "post_update_homepage", "publish_unchanged"}
    /\ last'.ret = "Ok"
    /\ Resolved(last'.route).ok
    /\ Resolved(last'.route).path = q

\* the blocks the step hands to save_blocks
C23_Saved ==
    IF last'.op = "save_blocks" THEN last'.arg ELSE last'.out

C25_LegacyEndpointEquivalent ==
    [][ /\ (last'.op = "post_update_homepage") =>
              \E uuid \in NewUuids(BlankPositions(JsonExtract(last'.arg).data)) :
                  LET r == post_update_route(routesFile, files, "homepage",
                                             JsonExtract(last'.arg), uuid)
                  IN  /\ r.response.status = last'.http
                      /\ r.ret = last'.ret
                      /\ r.saved = last'.out
                      /\ r.files = files'
                      /\ routesFile' = routesFile
        /\ (last'.op = "post_update_route" /\ last'.route = "homepage") =>
              \E uuid \in NewUuids(BlankPositions(JsonExtract(last'.arg).data)) :
                  LET r == post_update_homepage(routesFile, files,
                                                JsonExtract(last'.arg), uuid)
                  IN  /\ r.response.status = last'.http
                      /\ r.ret = last'.ret
                      /\ r.saved = last'.out
                      /\ r.files = files'
                      /\ routesFile' = routesFile ]_vars

\* the legacy endpoint saved a block that came with an empty id, under a
\* routes index that sends "homepage" to foo.json
C25_Witness ==
    /\ last.op = "post_update_homepage"
    /\ last.ret = "Ok"
    /\ last.http = 200
    /\ Len(last.out) = 1
    /\ last.out[1].id \in Uuids
    /\ files[Resolved("homepage").path].text = SerializeDocument(last.out)

\* C26: no call to save_blocks or update_route changes the routes index:
\* load_routes returns the same route sequence right after the call as right
\* before it, whether the call succeeded or failed.
C26_SavesKeepRoutesIndex ==
    [][ (last'.op \in {"save_blocks", "update_route", "post_update_route",
                       "post_update_homepage", "publish_unchanged"})
        => (load_routes(routesFile').routes = load_routes(routesFile).routes) ]_vars

\* the routes of the index, as load_routes returns them
C27_Routes == load_routes(routesFile).routes

\* the positions in the index of the routes with the name
C27_Named(route_name) ==
    { i \in 1..Len(C27_Routes) : C27_Routes[i].name = route_name }

\* the first of them
C27_First(route_name) ==
    CHOOSE i \in C27_Named(route_name) : \A j \in C27_Named(route_name) : i <= j

\* C27: when several routes of the index have the same name, the first of
\* them in index order decides the content path for load_blocks and for
\* save_blocks: a save writes that path or, when the first has none, fails
\* and writes nothing; a load returns what the file at that path gives; the
\* content files of the later routes with the name are neither written nor
\* of any influence on what is loaded.
C27_FirstOfDuplicatesDecides ==
    [][ (Cardinality(C27_Named(last'.route)) >= 2) =>
          LET ids == C27_Routes[C27_First(last'.route)].block_ids
          IN  /\ (last'.op = "save_blocks" /\ ids = <<>>) =>
                     (last'.ret = "NoContentPath" /\ files' = files)
              /\ (last'.op = "save_blocks" /\ ids # <<>>) =>
                     /\ \A q \in Paths : (q # ids[1]) => (files'[q] = files[q])
                     /\ (last'.ret = "Ok") =>
                            (files'[ids[1]].text = SerializeDocument(last'.arg))
              /\ (last'.op = "load_blocks" /\ ids = <<>>) => (last'.out = <<>>)
              /\ (last'.op = "load_blocks" /\ ids # <<>>) =>
                     /\ last'.out = IF ReadToString(files[ids[1]]).ok
                                    THEN ParseDocument(files[ids[1]].text).blocks
                                    ELSE <<>>
                     /\ \A q \in Paths, f \in ContentFileStates :
                            (q # ids[1]) =>
                                (load_blocks(routesFile, [files EXCEPT ![q] = f],
                                             last'.route).blocks = last'.out) ]_vars

\* "foo" is in the index twice, first with foo.json and then with
\* homepage.json: the save went to foo.json and homepage.json is as it was
C27_Witness ==
    /\ last.op = "save_blocks"
    /\ last.route = "foo"
    /\ last.ret = "Ok"
    /\ last.arg # <<>>
    /\ routesFile = File("rw", SerializeRoutes(DupRoutes))
    /\ files[FOO_JSON].text = SerializeDocument(last.arg)
    /\ files[HOMEPAGE_JSON] = File("rw", <<Junk>>)

\* C28: when content files are written only by save_blocks and update_route,
\* one call at a time, every content file that exists is a valid content
\* document, so load_blocks of any route that resolves to a readable file
\* parses it and adds no log entry for it.
C28_OwnFilesParse ==
    /\ \A q \in Paths :
           files[q].exists => ParseDocument(files[q].text).ok
    /\ \A n \in RouteNames :
           ( /\ Resolved(n).ok
             /\ ReadToString(files[Resolved(n).path]).ok )
           => /\ load_blocks(routesFile, files, n).logs = Resolved(n).logs
              /\ load_blocks(routesFile, files, n).blocks
                     = ParseDocument(files[Resolved(n).path].text).blocks

\* update_route has written a document with a generated id next to a file an
\* earlier save left, and both parse
C28_Witness ==
    /\ last.op = "update_route"
    /\ last.ret = "Ok"
    /\ Len(last.out) = 2
    /\ last.out[1].id \in Uuids
    /\ \A q \in Paths : files[q].exists /\ ParseDocument(files[q].text).ok

\* the variant and payload of each block, in order, without the ids
C29_Payloads(blocks) ==
    [i \in 1..Len(blocks) |-> blocks[i].block]

\* C29: when the blocks the editor of "homepage" shows are posted back
\* unchanged to update_route("homepage") and the save succeeds, the public
\* page has the same block variants and payloads, in the same order, after
\* the save as before it.
C29_PublishUnchangedKeepsPage ==
    [][ ( /\ last'.op = "publish_unchanged"
          /\ last'.route = "homepage"
          /\ last'.ret = "Ok" )
        => C29_Payloads(load_homepage_blocks(routesFile', files'))
               = C29_Payloads(load_homepage_blocks(routesFile, files)) ]_vars

\* C30: the id-filling step of update_route gives as many blocks as it got, in
\* the same order, each with its variant and payload; a block with a non-blank
\* id is passed on as it is, a blank id becomes a generated one; and filling
\* the ids of the output again, with whatever ids are generated, changes
\* nothing.
C30_IdFillingOnlyFillsBlanks ==
    last.op = "update_route" =>
        /\ Len(last.out) = Len(last.arg)
        /\ \A i \in 1..Len(last.arg) :
               /\ last.out[i].block = last.arg[i].block
               /\ ~TrimIsEmpty(last.arg[i].id) => last.out[i] = last.arg[i]
               /\ TrimIsEmpty(last.arg[i].id) => last.out[i].id \in Uuids
        /\ \A u \in [1..Len(last.out) -> Uuids] :
               blocks_with_ids(last.out, u) = last.out

\* a Header with a blank id before a Hero with an id went through the step
C30_Witness ==
    /\ last.op = "update_route"
    /\ Len(last.arg) = 2
    /\ last.arg[1].id = " "
    /\ last.arg[2].id = "a"
    /\ last.arg[1].block.variant = "Header"
    /\ last.arg[2].block.variant = "Hero"
    /\ last.out[1].id \in Uuids
    /\ last.out[2] = last.arg[2]

====
